---- MODULE Spec2Model ----
(***************************************************************************)
(* Model of examples/fastapi-react-hey-api/backend/main.py: the in-memory  *)
(* todo store, its six request handlers and the order in which their       *)
(* routes are registered.                                                  *)
(***************************************************************************)
EXTENDS Integers, Sequences, FiniteSets, TLC

\* ------------------------------------------------------------------ bounds
\* Number of identifiers uuid.uuid4() can hand out in one run of the model.
MaxIds == 2
\* Largest reading of the wall clock datetime.now() reads.
MaxClock == 1
\* Number of requests served in one run of the model.
MaxRequests == 3

\* ------------------------------------------------------- Python values
\* Values are tagged so that None, text and booleans can share a field.
None == [none |-> TRUE]
Str(s) == [str |-> s]
Bool(b) == [bool |-> b]
IsStr(v) == "str" \in DOMAIN v
IsBool(v) == "bool" \in DOMAIN v

\* Text is a sequence of characters over a two-letter alphabet with case.
Lower(c) == CASE c = "A" -> "a" [] c = "B" -> "b" [] OTHER -> c
\* str.lower()
str_lower(s) == [i \in DOMAIN s |-> Lower(s[i])]
\* needle in hay, for str
Contains(hay, needle) ==
    \E i \in 0..(Len(hay) - Len(needle)) :
        SubSeq(hay, i + 1, i + Len(needle)) = needle
\* Truth value of an Optional[str]: None and "" are false.
Truthy(v) == IsStr(v) /\ v.str # <<>>

\* Python slice s[a:b]: negative indices count from the end, then both are
\* clamped to 0..len(s).
SliceIndex(i, n) ==
    IF i < 0 THEN (IF i + n < 0 THEN 0 ELSE i + n)
    ELSE (IF i > n THEN n ELSE i)
Slice(s, a, b) ==
    LET lo == SliceIndex(a, Len(s))
        hi == SliceIndex(b, Len(s))
    IN SubSeq(s, lo + 1, hi)

\* ------------------------------------------------------ request inputs
Titles == {<<"A", "b">>}
Descriptions == {<<"a", "B">>}
Queries == {<<"a">>, <<"B">>}
Pages == {<<0, 1>>, <<1, 1>>, <<-1, 1>>, <<0, -1>>}

\* The values uuid.uuid4() can return, as text; "search" is not one of them.
Uuid(i) == <<"u1", "u2", "u3", "u4", "u5">>[i]
UuidSpace == {Uuid(i) : i \in 1..MaxIds}
Times == 0..MaxClock

\* class TodoCreate: a parsed body of POST /todos.  fields_set holds the fields
\* the body supplied; the others carry their defaults (None, False).
TodoCreate(fields_set, title, description, completed) ==
    [fields_set |-> fields_set,
     title |-> title,
     description |-> IF "description" \in fields_set THEN description ELSE None,
     completed |-> IF "completed" \in fields_set THEN completed ELSE Bool(FALSE)]
TodoCreateBodies ==
    {TodoCreate({"title"} \cup fs, Str(t), Str(d), Bool(TRUE)) :
        fs \in {{}, {"description", "completed"}},
        t \in Titles,
        d \in Descriptions}

\* class TodoUpdate: a parsed body of PUT /todos/{todo_id}.  Every field is
\* Optional and defaults to None, so a body may supply null for any of them.
TodoUpdate(fields_set, title, description, completed) ==
    [fields_set |-> fields_set,
     title |-> IF "title" \in fields_set THEN title ELSE None,
     description |-> IF "description" \in fields_set THEN description ELSE None,
     completed |-> IF "completed" \in fields_set THEN completed ELSE None]
UpdateFieldSets ==
    {{}, {"title"}, {"description"}, {"completed"},
     {"title", "description", "completed"}}
TodoUpdateBodies ==
    {TodoUpdate(fs, None, None, None) : fs \in UpdateFieldSets}
    \cup {TodoUpdate(fs, Str(<<"b">>), Str(d), Bool(TRUE)) :
            fs \in UpdateFieldSets, d \in Descriptions}

\* todo_update.dict(): every field, the ones the body left out as None.
dict_with_unset(m) == [f \in {"title", "description", "completed"} |-> m[f]]

\* todo_update.dict(exclude_unset=True): the supplied fields and their values.
dict_exclude_unset(m) == [f \in m.fields_set |-> m[f]]

\* ----------------------------------------------------------------- state
VARIABLES
    todos,      \* the dict todos, as its entries [key, value] in insertion order
    issued,     \* the identifiers uuid.uuid4() has returned, in call order
    deleted,    \* the identifiers a delete_todo has removed (history)
    served,     \* the number of requests served so far
    last        \* the last handler run: what it read of the request and
                \* what it answered (history)
vars == <<todos, issued, deleted, served, last>>

\* ------------------------------------------------------- dict operations
Keys(d) == {d[i].key : i \in DOMAIN d}
Values(d) == [i \in DOMAIN d |-> d[i].value]
IndexOf(d, k) == CHOOSE i \in DOMAIN d : d[i].key = k
\* d[k]
DictGet(d, k) == d[IndexOf(d, k)].value
\* d[k] = v: an existing key keeps its position, a new key goes last.
DictSet(d, k, v) ==
    IF k \in Keys(d)
    THEN [d EXCEPT ![IndexOf(d, k)] = [key |-> k, value |-> v]]
    ELSE Append(d, [key |-> k, value |-> v])
\* d.popitem(): the entry inserted last goes, whatever k is.
DictDel_last(d, k) == SubSeq(d, 1, Len(d) - 1)

\* del d[k]
DictDel(d, k) ==
    LET n == IndexOf(d, k)
    IN SubSeq(d, 1, n - 1) \o SubSeq(d, n + 1, Len(d))

\* ------------------------------------------------------------- outcomes
Ok(body) == [kind |-> "ok", body |-> body]
\* raise HTTPException(status_code=404, detail="Todo not found")
NotFound == [kind |-> "HTTPException", status_code |-> 404, detail |-> "Todo not found"]
\* None has no attribute lower
AttributeError == [kind |-> "AttributeError"]
Result(store, resp) == [todos |-> store, resp |-> resp]

\* ------------------------------------------------------------- handlers
\* class Todo
Todo(id, title, description, completed, created_at, updated_at) ==
    [id |-> id, title |-> title, description |-> description,
     completed |-> completed, created_at |-> created_at,
     updated_at |-> updated_at]

\* def get_todos(skip, limit)
get_todos(d, skip, limit) ==
    LET todo_list == Values(d)
    IN Result(d, Ok(Slice(todo_list, skip, skip + limit)))

\* An identifier made from the number of records stored, str(len(todos) + 1).
uuid4_from_len == IF Len(issued) < MaxIds THEN {Uuid(Len(todos) + 1)} ELSE {}

\* uuid.uuid4(): the values the next call can return.  A version-4 UUID is 122
\* random bits; the model takes two calls never to return the same value and,
\* identifiers being opaque, names the value of the k-th call Uuid(k).
uuid4 == IF Len(issued) < MaxIds THEN {Uuid(Len(issued) + 1)} ELSE {}

\* datetime.now(): the readings a call can return.  The clock is the naive
\* local wall clock, which nothing keeps from repeating a reading or from
\* being set back between two calls.
datetime_now == Times

\* create_todo with completed=False in place of completed=todo.completed.
create_todo_not_completed(d, todo, todo_id, now) ==
    LET new_todo == Todo(todo_id, todo.title, todo.description,
                         Bool(FALSE), now, now)
    IN Result(DictSet(d, todo_id, new_todo), Ok(new_todo))

\* def create_todo(todo), with the identifier and the clock reading it drew
create_todo(d, todo, todo_id, now) ==
    LET new_todo == Todo(todo_id, todo.title, todo.description,
                         todo.completed, now, now)
    IN Result(DictSet(d, todo_id, new_todo), Ok(new_todo))

\* def get_todo(todo_id)
get_todo(d, todo_id) ==
    IF todo_id \notin Keys(d)
    THEN Result(d, NotFound)
    ELSE Result(d, Ok(DictGet(d, todo_id)))

\* def update_todo(todo_id, todo_update), with the clock reading it drew.
\* The stored object is changed in place, so its entry keeps its position.
update_todo(d, todo_id, todo_update, now) ==
    IF todo_id \notin Keys(d)
    THEN Result(d, NotFound)
    ELSE LET existing_todo == DictGet(d, todo_id)
             update_data == dict_exclude_unset(todo_update)
             updated ==
                 [existing_todo EXCEPT
                     !.title = IF "title" \in DOMAIN update_data
                               THEN update_data.title ELSE @,
                     !.description = IF "description" \in DOMAIN update_data
                                     THEN update_data.description ELSE @,
                     !.completed = IF "completed" \in DOMAIN update_data
                                   THEN update_data.completed ELSE @,
                     !.updated_at = now]
         IN Result([d EXCEPT ![IndexOf(d, todo_id)].value = updated],
                   Ok(updated))

\* delete_todo without its del statement.
delete_todo_keeps(d, todo_id) ==
    IF todo_id \notin Keys(d)
    THEN Result(d, NotFound)
    ELSE Result(d, Ok([message |-> "Todo deleted successfully"]))

\* def delete_todo(todo_id)
delete_todo(d, todo_id) ==
    IF todo_id \notin Keys(d)
    THEN Result(d, NotFound)
    ELSE Result(DictDel(d, todo_id),
                Ok([message |-> "Todo deleted successfully"]))

\* The test of search_todos' loop body on one record.
SearchMatches(todo, query) ==
    \/ Contains(str_lower(todo.title.str), query)
    \/ (Truthy(todo.description)
        /\ Contains(str_lower(todo.description.str), query))

\* The loop of search_todos from record i on; todo.title.lower() raises on a
\* title that is None.
RECURSIVE SearchScan(_, _, _, _)
SearchScan(values, i, query, results) ==
    IF i > Len(values) THEN Ok(results)
    ELSE IF ~IsStr(values[i].title) THEN AttributeError
    ELSE IF SearchMatches(values[i], query)
         THEN SearchScan(values, i + 1, query, Append(results, values[i]))
         ELSE SearchScan(values, i + 1, query, results)

\* def search_todos(q)
search_todos(d, q) ==
    LET query == str_lower(q)
    IN Result(d, SearchScan(Values(d), 1, query, <<>>))

\* -------------------------------------------------------------- routing
\* The routes in the order the decorators register them.
Routes ==
    << [method |-> "GET",    path |-> <<>>,                     endpoint |-> "root"],
       [method |-> "GET",    path |-> <<"todos">>,              endpoint |-> "get_todos"],
       [method |-> "POST",   path |-> <<"todos">>,              endpoint |-> "create_todo"],
       [method |-> "GET",    path |-> <<"todos", "{todo_id}">>, endpoint |-> "get_todo"],
       [method |-> "PUT",    path |-> <<"todos", "{todo_id}">>, endpoint |-> "update_todo"],
       [method |-> "DELETE", path |-> <<"todos", "{todo_id}">>, endpoint |-> "delete_todo"],
       [method |-> "GET",    path |-> <<"todos", "search">>,    endpoint |-> "search_todos"] >>

\* A route matches a request of its method whose path has the same segments,
\* a {todo_id} segment standing for any text.
RouteMatches(route, method, path) ==
    /\ route.method = method
    /\ Len(route.path) = Len(path)
    /\ \A i \in DOMAIN path :
           route.path[i] = "{todo_id}" \/ route.path[i] = path[i]

\* The endpoint a request is given to: the first route that matches.
Dispatch(method, path) ==
    LET hits == {i \in DOMAIN Routes : RouteMatches(Routes[i], method, path)}
    IN IF hits = {}
       THEN "not routed"
       ELSE Routes[CHOOSE i \in hits : \A j \in hits : i <= j].endpoint

\* ---------------------------------------------------------------- actions
Init ==
    /\ todos = <<>>
    /\ issued = <<>>
    /\ deleted = {}
    /\ served = 0
    /\ last = [op |-> "start"]

\* A request is served.
Serve ==
    /\ served < MaxRequests
    /\ served' = served + 1

\* GET /todos?skip=&limit=
List ==
    /\ Dispatch("GET", <<"todos">>) = "get_todos"
    /\ \E page \in Pages :
        LET skip == page[1]
            limit == page[2]
            r == get_todos(todos, skip, limit)
        IN /\ todos' = r.todos
           /\ last' = [op |-> "get_todos", skip |-> skip, limit |-> limit,
                       resp |-> r.resp]
    /\ Serve
    /\ UNCHANGED <<issued, deleted>>

\* POST /todos
Create ==
    /\ Dispatch("POST", <<"todos">>) = "create_todo"
    /\ \E todo \in TodoCreateBodies, todo_id \in uuid4, now \in datetime_now :
        LET r == create_todo(todos, todo, todo_id, now)
        IN /\ todos' = r.todos
           /\ last' = [op |-> "create_todo", todo |-> todo, resp |-> r.resp]
           /\ issued' = Append(issued, todo_id)
    /\ Serve
    /\ UNCHANGED deleted

\* GET /todos/{todo_id}
Get ==
    /\ \E todo_id \in UuidSpace :
        /\ Dispatch("GET", <<"todos", todo_id>>) = "get_todo"
        /\ LET r == get_todo(todos, todo_id)
           IN /\ todos' = r.todos
              /\ last' = [op |-> "get_todo", todo_id |-> todo_id,
                          resp |-> r.resp]
    /\ Serve
    /\ UNCHANGED <<issued, deleted>>

\* PUT /todos/{todo_id}.  A request for an absent id is answered before its
\* body or the clock is read.
Update ==
    /\ \E todo_id \in UuidSpace :
        /\ Dispatch("PUT", <<"todos", todo_id>>) = "update_todo"
        /\ \E todo_update \in TodoUpdateBodies, now \in datetime_now :
            LET r == update_todo(todos, todo_id, todo_update, now)
            IN /\ todos' = r.todos
               /\ last' = IF r.resp = NotFound
                          THEN [op |-> "update_todo", todo_id |-> todo_id,
                                resp |-> r.resp]
                          ELSE [op |-> "update_todo", todo_id |-> todo_id,
                                todo_update |-> todo_update, now |-> now,
                                before |-> DictGet(todos, todo_id),
                                resp |-> r.resp]
    /\ Serve
    /\ UNCHANGED <<issued, deleted>>

\* DELETE /todos/{todo_id}
Delete ==
    /\ \E todo_id \in UuidSpace :
        /\ Dispatch("DELETE", <<"todos", todo_id>>) = "delete_todo"
        /\ LET r == delete_todo(todos, todo_id)
           IN /\ todos' = r.todos
              /\ last' = [op |-> "delete_todo", todo_id |-> todo_id,
                          resp |-> r.resp]
              /\ deleted' = IF r.resp = NotFound
                            THEN deleted ELSE deleted \cup {todo_id}
    /\ Serve
    /\ UNCHANGED issued

\* GET /todos/search?q=: the request goes to the endpoint Dispatch names, and
\* under /todos/{todo_id} the path parameter is the text "search" and q is
\* not read.
SearchRequest ==
    /\ LET endpoint == Dispatch("GET", <<"todos", "search">>)
       IN \E q \in Queries :
            LET r == IF endpoint = "search_todos"
                     THEN search_todos(todos, q)
                     ELSE get_todo(todos, "search")
            IN /\ todos' = r.todos
               /\ last' = IF endpoint = "search_todos"
                          THEN [op |-> "GET /todos/search", q |-> q,
                                endpoint |-> endpoint, resp |-> r.resp]
                          ELSE [op |-> "GET /todos/search",
                                endpoint |-> endpoint, resp |-> r.resp]
    /\ Serve
    /\ UNCHANGED <<issued, deleted>>

\* search_todos(q) run as a function: the only way the Search operation is
\* reached (see SearchRequest).
Search ==
    /\ \E q \in Queries :
        LET r == search_todos(todos, q)
        IN /\ todos' = r.todos
           /\ last' = [op |-> "search_todos", q |-> q, resp |-> r.resp]
    /\ Serve
    /\ UNCHANGED <<issued, deleted>>

Next ==
    \/ List
    \/ Create
    \/ Get
    \/ Update
    \/ Delete
    \/ SearchRequest
    \/ Search

Spec == Init /\ [][Next]_vars

\* ------------------------------------------------------------ properties
Max(a, b) == IF a >= b THEN a ELSE b
Min(a, b) == IF a <= b THEN a ELSE b
Found(resp) == resp # NotFound
Reads == {"get_todos", "get_todo", "search_todos", "GET /todos/search"}

\* C1: a GET request to /todos/search is given to search_todos and is
\* answered with a list of records, never with get_todo's NotFound.
C1_SearchIsRouted ==
    last.op = "GET /todos/search" =>
        /\ last.endpoint = "search_todos"
        /\ last.resp.kind = "ok"

\* The record a successful update_todo must leave: the supplied fields take
\* the supplied values, the others keep theirs.
C2_FieldsApplied(old, new, req) ==
    /\ \A f \in {"title", "description", "completed"} :
           new[f] = IF f \in req.fields_set THEN req[f] ELSE old[f]
    /\ new.id = old.id
    /\ new.created_at = old.created_at

\* C2 (as amended): a successful Update changes exactly the supplied fields
\* among title, description and completed, leaves id and created_at alone,
\* and sets updated_at to the clock reading it took, whatever the body
\* supplies; the stored record is the one it returns.
C2_UpdateAppliesSuppliedFields ==
    (last.op = "update_todo" /\ Found(last.resp)) =>
        /\ C2_FieldsApplied(last.before, last.resp.body, last.todo_update)
        /\ last.resp.body.updated_at = last.now
        /\ last.todo_id \in Keys(todos)
        /\ DictGet(todos, last.todo_id) = last.resp.body

\* C2 (as claimed): as above, and updated_at always ends strictly later than
\* it was before the update.
C2_UpdatedAtStrictlyLater ==
    (last.op = "update_todo" /\ Found(last.resp)) =>
        /\ C2_FieldsApplied(last.before, last.resp.body, last.todo_update)
        /\ last.resp.body.updated_at > last.before.updated_at

\* An update of completed alone has run on a record that has a description,
\* with a clock reading later than the record's updated_at.
C2_Witness ==
    /\ last.op = "update_todo"
    /\ Found(last.resp)
    /\ last.todo_update.fields_set = {"completed"}
    /\ last.before.description # None
    /\ last.now > last.before.updated_at

\* C3: the record create_todo returns carries the supplied title and
\* description, completed as supplied or False when omitted, and equal
\* created_at and updated_at; a GET of its id right afterwards is given to
\* get_todo and returns that same record.
C3_CreateThenGet ==
    last.op = "create_todo" =>
        LET todo == last.todo
            rec == last.resp.body
        IN /\ last.resp.kind = "ok"
           /\ rec.title = todo.title
           /\ rec.description = IF "description" \in todo.fields_set
                                THEN todo.description ELSE None
           /\ rec.completed = IF "completed" \in todo.fields_set
                              THEN todo.completed ELSE Bool(FALSE)
           /\ rec.created_at = rec.updated_at
           /\ Dispatch("GET", <<"todos", rec.id>>) = "get_todo"
           /\ get_todo(todos, rec.id) = Result(todos, Ok(rec))

\* A second record has just been created from a body that supplies completed.
C3_Witness ==
    /\ last.op = "create_todo"
    /\ "completed" \in last.todo.fields_set
    /\ last.resp.body.completed = Bool(TRUE)
    /\ Len(todos) = 2

\* C4: an id that a Delete has removed is absent from the store from then on:
\* Get, Update and Delete of it answer NotFound, whatever was served since.
C4_DeletedStaysAbsent ==
    /\ \A id \in deleted :
        /\ id \notin Keys(todos)
        /\ get_todo(todos, id).resp = NotFound
        /\ delete_todo(todos, id).resp = NotFound
        /\ \A todo_update \in TodoUpdateBodies, now \in datetime_now :
               update_todo(todos, id, todo_update, now).resp = NotFound
    /\ (last.op \in {"get_todo", "update_todo"} /\ last.todo_id \in deleted)
           => last.resp = NotFound

\* A record has been created after another one was deleted.
C4_Witness ==
    /\ deleted # {}
    /\ last.op = "create_todo"
    /\ Len(todos) >= 1

\* The records of vals that match q: title or description, when text, holds q
\* as a substring once both are put in one case.
C5_Matching(vals, q) ==
    LET Hit(rec) ==
            \/ (IsStr(rec.title)
                /\ Contains(str_lower(rec.title.str), str_lower(q)))
            \/ (IsStr(rec.description)
                /\ Contains(str_lower(rec.description.str), str_lower(q)))
    IN SelectSeq(vals, Hit)

\* C5: Search answers, without an error, with exactly the stored records that
\* match the query, each once and in insertion order.
C5_SearchReturnsMatches ==
    last.op = "search_todos" =>
        last.resp = Ok(C5_Matching(Values(todos), last.q))

\* C6: List answers with a contiguous run of the records in insertion order
\* that holds no more than limit records (none for a negative limit), and is
\* the records from position skip on when neither value is negative.
C6_ListClamped ==
    last.op = "get_todos" =>
        LET vals == Values(todos)
            page == last.resp.body
        IN /\ last.resp.kind = "ok"
           /\ Len(page) <= Max(last.limit, 0)
           /\ \E start \in 0..Len(vals) :
                  page = SubSeq(vals, start + 1, start + Len(page))
           /\ (last.skip >= 0 /\ last.limit >= 0) =>
                  page = SubSeq(vals, last.skip + 1,
                                Min(last.skip + last.limit, Len(vals)))

\* C7: Get, Update and Delete of an absent id answer NotFound and leave the
\* store as it was, and no handler ever ends in an error other than NotFound.
C7_NotFoundOnly ==
    /\ \A id \in UuidSpace \ Keys(todos) :
        /\ get_todo(todos, id) = Result(todos, NotFound)
        /\ delete_todo(todos, id) = Result(todos, NotFound)
        /\ \A todo_update \in TodoUpdateBodies, now \in datetime_now :
               update_todo(todos, id, todo_update, now) = Result(todos, NotFound)
    /\ last.op # "start" => (last.resp.kind = "ok" \/ last.resp = NotFound)

\* C8: every record is stored under its own id, no two entries share a key,
\* uuid4 never returns a value it returned before (deleted records' ids
\* included), a created record carries the value just returned, and an Update
\* leaves the id as it was.
C8_IdsUniqueAndFixed ==
    /\ \A i \in DOMAIN todos : todos[i].key = todos[i].value.id
    /\ \A i, j \in DOMAIN todos : i # j => todos[i].key # todos[j].key
    /\ \A i, j \in DOMAIN issued : i # j => issued[i] # issued[j]
    /\ Keys(todos) \cup deleted = {issued[i] : i \in DOMAIN issued}
    /\ last.op = "create_todo" => last.resp.body.id = issued[Len(issued)]
    /\ (last.op = "update_todo" /\ Found(last.resp)) =>
           /\ last.resp.body.id = last.todo_id
           /\ last.before.id = last.todo_id

\* A record has been created after the first record created was deleted.
C8_Witness ==
    /\ Len(issued) >= 2
    /\ issued[1] \in deleted
    /\ last.op = "create_todo"

\* C9: every stored record has a text title and a boolean completed.
C9_RecordsConform ==
    \A i \in DOMAIN todos :
        /\ IsStr(todos[i].value.title)
        /\ IsBool(todos[i].value.completed)

\* What one request may do to the store.
C10_Step ==
    LET op == last'.op
        resp == last'.resp
    IN served' = served + 1 =>
        /\ op \in Reads => todos' = todos
        /\ op = "create_todo" =>
               /\ resp.body.id \notin Keys(todos)
               /\ todos' = Append(todos, [key |-> resp.body.id,
                                          value |-> resp.body])
        /\ (op = "update_todo" /\ Found(resp)) =>
               /\ Len(todos') = Len(todos)
               /\ \A i \in DOMAIN todos :
                      /\ todos'[i].key = todos[i].key
                      /\ todos[i].key # last'.todo_id => todos'[i] = todos[i]
        /\ (op = "delete_todo" /\ Found(resp)) =>
               \E n \in DOMAIN todos :
                   /\ todos[n].key = last'.todo_id
                   /\ Len(todos') = Len(todos) - 1
                   /\ \A i \in DOMAIN todos' :
                          todos'[i] = IF i < n THEN todos[i] ELSE todos[i + 1]

====
